---- MODULE Spec2Model ----
(***************************************************************************)
(* firedetect backend: an express application in front of Firestore.      *)
(* Three revisions of the same file are kept in the repository:           *)
(*   src/api/index.js          (add handlers coerce lat/lon, has erase)   *)
(*   src/unnamed/part_000      (two older revisions, lat/lon stored raw)  *)
(* The model runs one of those revisions per behaviour (variable          *)
(* revision) against one store (three collections of documents).          *)
(***************************************************************************)
EXTENDS Integers, Sequences, FiniteSets, TLC

(***************************************************************************)
(* JavaScript values.  Numbers are fixed point with one decimal digit:    *)
(* the number x is held as v = x * 10 (so 37.5 is v = 375).  Strings are  *)
(* sequences of one-character strings.                                     *)
(***************************************************************************)

Undefined == [t |-> "undefined", v |-> 0, s |-> <<>>]
NaN == [t |-> "NaN", v |-> 0, s |-> <<>>]
Num(tenths) == [t |-> "number", v |-> tenths, s |-> <<>>]
Str(chars) == [t |-> "string", v |-> 0, s |-> chars]
\* the sentinel FieldValue.serverTimestamp() and the timestamp the store writes for it
ServerTimestamp == [t |-> "serverTimestamp", v |-> 0, s |-> <<>>]
Timestamp(ticks) == [t |-> "timestamp", v |-> ticks, s |-> <<>>]

Digits == <<"0", "1", "2", "3", "4", "5", "6", "7", "8", "9">>
IsDigit(c) == \E i \in 1..10 : Digits[i] = c
DigitVal(c) == (CHOOSE i \in 1..10 : Digits[i] = c) - 1
IsSpace(c) == c = " "

\* the decimal digits of a non-negative integer, as a sequence of digit characters
RECURSIVE NatToStr(_)
NatToStr(n) ==
    IF n < 10 THEN <<Digits[n + 1]>>
    ELSE NatToStr(n \div 10) \o <<Digits[(n % 10) + 1]>>

\* JsToString(x): what parseFloat and parseInt first apply to their argument
JsToString(x) ==
    CASE x.t = "string" -> x.s
      [] x.t = "undefined" -> <<"u", "n", "d", "e", "f", "i", "n", "e", "d">>
      [] x.t = "NaN" -> <<"N", "a", "N">>
      [] x.t = "number" ->
            LET a == IF x.v < 0 THEN 0 - x.v ELSE x.v
                int == NatToStr(a \div 10)
                frac == IF a % 10 = 0 THEN <<>> ELSE <<".", Digits[(a % 10) + 1]>>
            IN  (IF x.v < 0 THEN <<"-">> ELSE <<>>) \o int \o frac
      [] OTHER -> <<"[", "o", "b", "j", "e", "c", "t", "]">>

\* index of the first character of s at or after i that is not white space
RECURSIVE SkipSpace(_, _)
SkipSpace(s, i) ==
    IF i <= Len(s) /\ IsSpace(s[i]) THEN SkipSpace(s, i + 1) ELSE i

\* index just after the run of digits of s that starts at i
RECURSIVE DigitsEnd(_, _)
DigitsEnd(s, i) ==
    IF i <= Len(s) /\ IsDigit(s[i]) THEN DigitsEnd(s, i + 1) ELSE i

\* the value of the digits s[i..j-1] (0 when the run is empty)
RECURSIVE DigitsValue(_, _, _)
DigitsValue(s, i, j) ==
    IF j <= i THEN 0 ELSE DigitsValue(s, i, j - 1) * 10 + DigitVal(s[j - 1])

\* parseInt(x) with the default radix: white space, a sign, then the longest run of
\* decimal digits; NaN when there is none
parseInt(x) ==
    LET s == JsToString(x)
        i == SkipSpace(s, 1)
        neg == i <= Len(s) /\ s[i] = "-"
        j == IF i <= Len(s) /\ s[i] \in {"-", "+"} THEN i + 1 ELSE i
        k == DigitsEnd(s, j)
        n == DigitsValue(s, j, k) * 10
    IN  IF k = j THEN NaN ELSE Num(IF neg THEN 0 - n ELSE n)

\* parseFloat(x): white space, a sign, then the longest prefix that is a decimal
\* literal (digits, an optional point, digits); NaN when it holds no digit.
\* Fraction digits after the first are dropped by the fixed-point representation.
parseFloat(x) ==
    LET s == JsToString(x)
        i == SkipSpace(s, 1)
        neg == i <= Len(s) /\ s[i] = "-"
        j == IF i <= Len(s) /\ s[i] \in {"-", "+"} THEN i + 1 ELSE i
        k == DigitsEnd(s, j)
        point == k <= Len(s) /\ s[k] = "."
        m == IF point THEN DigitsEnd(s, k + 1) ELSE k
        fracDigits == IF point THEN m - (k + 1) ELSE 0
        tenth == IF fracDigits > 0 THEN DigitVal(s[k + 1]) ELSE 0
        n == DigitsValue(s, j, k) * 10 + tenth
    IN  IF k = j /\ fracDigits = 0 THEN NaN ELSE Num(IF neg THEN 0 - n ELSE n)

\* ToBoolean(x), as used by the || operator
Truthy(x) ==
    CASE x.t = "undefined" -> FALSE
      [] x.t = "NaN" -> FALSE
      [] x.t = "number" -> x.v # 0
      [] x.t = "string" -> Len(x.s) > 0
      [] OTHER -> TRUE

\* a || b
Or(a, b) == IF Truthy(a) THEN a ELSE b

(***************************************************************************)
(* Bounds of the model                                                     *)
(***************************************************************************)
\* documents the store ever holds (document ids are 1..MaxDocs)
MaxDocs == 3
\* documents the store ever holds in the ingestion specification
MaxIngestDocs == 1
\* the wall clock runs from 1 to MaxClock
MaxClock == 2
\* deleteCollection's batchSize (300 in the source), scaled down
BatchSize == 2

Procs == {1, 2}
Revisions == {"api/index.js", "unnamed/part_000"}
Collections == <<"sensorData", "citizenReports", "preReports">>
CollectionNames == {Collections[i] : i \in 1..Len(Collections)}
DocIds == 1..MaxDocs

VARIABLES
    isFirebaseInitialized,  \* the readiness flag computed at process start
    db,                     \* the store handle: "firestore" or "null"
    revision,               \* which revision of the file serves the requests
    clock,                  \* wall clock (Date.now() and the store's clock), in ticks
    store,                  \* collection name -> set of documents [id, data]
    usedIds,                \* document ids the store has ever assigned
    rq                      \* per request slot: the request being served and its response

vars == <<isFirebaseInitialized, db, revision, clock, store, usedIds, rq>>

\* Date.now(), in the fixed-point representation
DateNow == Num(clock * 10)

(***************************************************************************)
(* Requests.  A slot holds the request an asynchronous handler is serving: *)
(* where the handler is suspended (pc), its locals, and the response once  *)
(* it is sent.  The fields n0, solo, commits and removed are history       *)
(* fields of an erase: per collection, the number of documents when its    *)
(* erase began, whether no other request wrote the collection since, and   *)
(* the number of batches committed; and the ids of the documents its       *)
(* commits took out of the store.                                          *)
(***************************************************************************)
NoCounts == [i \in 1..Len(Collections) |-> 0]
NoReads == [c \in CollectionNames |-> {}]

IdleRequest ==
    [route |-> "", pc |-> "idle", body |-> Undefined, arrival |-> 0,
     handled |-> FALSE, coll |-> "", newDoc |-> Undefined,
     status |-> 0, resp |-> Undefined,
     pend |-> {}, got |-> NoReads,
     cidx |-> 0, deleted |-> 0, result |-> <<>>, page |-> {},
     removed |-> {}, n0 |-> NoCounts, solo |-> [i \in 1..Len(Collections) |-> FALSE],
     commits |-> NoCounts]

NewRequest(route, body) ==
    [IdleRequest EXCEPT !.route = route, !.pc = "arrived", !.body = body,
                        !.arrival = clock]

\* res.status(status).json(resp)
Respond(r, status, resp) ==
    [r EXCEPT !.pc = "done", !.status = status, !.resp = resp]

Free(p) == rq[p].pc \in {"idle", "done"}

Init ==
    /\ isFirebaseInitialized \in BOOLEAN
    /\ db = IF isFirebaseInitialized THEN "firestore" ELSE "null"
    /\ revision \in Revisions
    /\ clock = 1
    /\ store = [c \in CollectionNames |-> {}]
    /\ usedIds = {}
    /\ rq = [p \in Procs |-> IdleRequest]

(***************************************************************************)
(* The initialization guard middleware                                     *)
(***************************************************************************)
ConfigErrorBody ==
    [error |-> "server configuration error (Firebase)",
     message |-> "the backend failed to authenticate with Firebase"]

\* a guard that lets every request through
GuardPasses_Always == TRUE

\* the guard calls next() exactly when the store handle is available
GuardPasses == ~(~isFirebaseInitialized \/ db = "null")

\* the request as the middleware chain leaves it before any route handler
Guard(route, body) ==
    LET r == NewRequest(route, body)
    IN  IF GuardPasses THEN [r EXCEPT !.handled = TRUE]
        ELSE Respond(r, 500, ConfigErrorBody)

(***************************************************************************)
(* The add handlers: validation and normalization                          *)
(***************************************************************************)
\* a required-field check that forgets temp
SensorMissing_NoTemp(body) ==
    body.lat = Undefined \/ body.lon = Undefined \/ body.smoke = Undefined

SensorMissing(body) ==
    body.lat = Undefined \/ body.lon = Undefined \/ body.smoke = Undefined
        \/ body.temp = Undefined

CitizenMissing(body) == body.lat = Undefined \/ body.lon = Undefined

PreMissing(body) ==
    body.lat = Undefined \/ body.lon = Undefined \/ body.startDate = Undefined
        \/ body.endDate = Undefined

\* lat and lon as the revision stores them: coerced in api/index.js, as received
\* in the older revisions
Coordinate(x) == IF revision = "api/index.js" THEN parseFloat(x) ELSE x

\* a normalizer that keeps the client's createdAt when there is one
SensorDoc_ClientCreatedAt(body, now) ==
    [lat |-> Coordinate(body.lat),
     lon |-> Coordinate(body.lon),
     smoke |-> parseFloat(body.smoke),
     temp |-> parseFloat(body.temp),
     humidity |-> parseFloat(Or(body.humidity, Num(0))),
     time |-> Or(parseInt(body.time), now),
     createdAt |-> IF body.createdAt = Undefined THEN ServerTimestamp
                   ELSE body.createdAt]

SensorDoc(body, now) ==
    [lat |-> Coordinate(body.lat),
     lon |-> Coordinate(body.lon),
     smoke |-> parseFloat(body.smoke),
     temp |-> parseFloat(body.temp),
     humidity |-> parseFloat(Or(body.humidity, Num(0))),
     time |-> Or(parseInt(body.time), now),
     createdAt |-> ServerTimestamp]

CitizenDoc(body, now) ==
    [lat |-> Coordinate(body.lat),
     lon |-> Coordinate(body.lon),
     time |-> Or(parseInt(body.time), now),
     createdAt |-> ServerTimestamp]

PreDoc(body, now) ==
    [lat |-> Coordinate(body.lat),
     lon |-> Coordinate(body.lon),
     startDate |-> parseInt(body.startDate),
     endDate |-> parseInt(body.endDate),
     rangeKm |-> parseFloat(Or(body.rangeKm, Num(1))),
     createdAt |-> ServerTimestamp]

\* the handler up to its first await: reject, or build newDoc and issue the insert
AddHandler(r, missing, errorText, coll, newDoc) ==
    IF ~r.handled THEN r
    ELSE IF missing THEN Respond(r, 400, [error |-> errorText])
    ELSE [r EXCEPT !.pc = "adding", !.coll = coll, !.newDoc = newDoc]

AddSensor(p, body) ==
    /\ Free(p)
    /\ rq' = [rq EXCEPT ![p] =
                AddHandler(Guard("POST /api/add/sensor", body), SensorMissing(body),
                           "Missing required fields for sensor data",
                           "sensorData", SensorDoc(body, DateNow))]
    /\ UNCHANGED <<isFirebaseInitialized, db, revision, clock, store, usedIds>>

AddCitizen(p, body) ==
    /\ Free(p)
    /\ rq' = [rq EXCEPT ![p] =
                AddHandler(Guard("POST /api/add/citizen", body), CitizenMissing(body),
                           "Missing required fields for citizen report",
                           "citizenReports", CitizenDoc(body, DateNow))]
    /\ UNCHANGED <<isFirebaseInitialized, db, revision, clock, store, usedIds>>

AddPre(p, body) ==
    /\ Free(p)
    /\ rq' = [rq EXCEPT ![p] =
                AddHandler(Guard("POST /api/add/pre", body), PreMissing(body),
                           "Missing required fields for pre-report",
                           "preReports", PreDoc(body, DateNow))]
    /\ UNCHANGED <<isFirebaseInitialized, db, revision, clock, store, usedIds>>

\* the store resolves the serverTimestamp sentinel with its own clock
Stamp(data) ==
    [k \in DOMAIN data |->
        IF data[k] = ServerTimestamp THEN Timestamp(clock) ELSE data[k]]

\* every other request that is erasing collection c has now seen a concurrent write
Disturb(f, p, c) ==
    [q \in Procs |->
        IF q # p /\ f[q].cidx > 0
        THEN [f[q] EXCEPT !.solo =
                [i \in 1..Len(Collections) |->
                    IF Collections[i] = c THEN FALSE ELSE f[q].solo[i]]]
        ELSE f[q]]

AddErrorText(coll) ==
    CASE coll = "sensorData" -> "Error adding sensor data"
      [] coll = "citizenReports" -> "Error adding citizen report"
      [] OTHER -> "Error adding pre-report"

AddedText(coll) ==
    CASE coll = "sensorData" -> "Sensor data added"
      [] coll = "citizenReports" -> "Citizen report added"
      [] OTHER -> "Pre-report added"

\* the id the store gives the next document (the store's ids are opaque; the model
\* numbers the documents in the order of their insertion)
NextId == Cardinality(usedIds) + 1

\* collection(c).add(newDoc) resolves: the store assigns the id and createdAt, and
\* the handler answers 201 with the id
StoreAdd(p) ==
    /\ rq[p].pc = "adding"
    /\ \E id \in {NextId} \cap DocIds :
        LET c == rq[p].coll
            doc == [id |-> id, data |-> Stamp(rq[p].newDoc)]
        IN  /\ store' = [store EXCEPT ![c] = @ \cup {doc}]
            /\ usedIds' = usedIds \cup {id}
            /\ rq' = Disturb([rq EXCEPT ![p] =
                        Respond(rq[p], 201, [message |-> AddedText(c), id |-> id])],
                        p, c)
    /\ UNCHANGED <<isFirebaseInitialized, db, revision, clock>>

\* collection(c).add(newDoc) rejects: the catch block answers 500
StoreAddFail(p) ==
    /\ rq[p].pc = "adding"
    /\ rq' = [rq EXCEPT ![p] =
                Respond(rq[p], 500, [error |-> AddErrorText(rq[p].coll)])]
    /\ UNCHANGED <<isFirebaseInitialized, db, revision, clock, store, usedIds>>

\* time passes
Tick ==
    /\ clock < MaxClock
    /\ clock' = clock + 1
    /\ UNCHANGED <<isFirebaseInitialized, db, revision, store, usedIds, rq>>

(***************************************************************************)
(* GET /api/data                                                           *)
(***************************************************************************)
\* the trailing recency window of the specification's read filter, in ticks
RecencyWindow == 1

\* is time t (a JavaScript value) later than tick n
Later(t, n) == t.t = "number" /\ t.v > n * 10

\* a read that applies the recency window to sensor and citizen records
ReadCollection_Recent(c) ==
    IF c \in {"sensorData", "citizenReports"}
    THEN {d \in store[c] : Later(d.data.time, clock - RecencyWindow)}
    ELSE store[c]

\* a read that applies the validity window to pre-reports
ReadCollection_Active(c) ==
    IF c = "preReports"
    THEN {d \in store[c] : Later(d.data.endDate, clock)}
    ELSE store[c]

\* db.collection(c).get(): the whole collection, no query predicate
ReadCollection(c) == store[c]

\* { id: doc.id, ...doc.data() }
DocToJson(doc) ==
    [k \in {"id"} \cup DOMAIN doc.data |->
        IF k \in DOMAIN doc.data THEN doc.data[k] ELSE doc.id]

\* the body of the 200 response
DataBody(got) ==
    [sensorData |-> {DocToJson(d) : d \in got["sensorData"]},
     citizenReports |-> {DocToJson(d) : d \in got["citizenReports"]},
     preReports |-> {DocToJson(d) : d \in got["preReports"]}]

\* the body of the 500 response of the catch block
DataErrorBody == [error |-> "Error fetching combined data from Firebase"]

\* a join that resolves with the first read that does
JoinResolved_First(pend) == pend # CollectionNames

\* Promise.all resolves once none of its reads is pending
JoinResolved(pend) == pend = {}

\* the three reads are issued together and awaited jointly
DataHandler(r) ==
    IF ~r.handled THEN r
    ELSE [r EXCEPT !.pc = "reading", !.pend = CollectionNames]

GetData(p) ==
    /\ Free(p)
    /\ rq' = [rq EXCEPT ![p] = DataHandler(Guard("GET /api/data", Undefined))]
    /\ UNCHANGED <<isFirebaseInitialized, db, revision, clock, store, usedIds>>

\* one of the pending reads resolves; the response is sent when the last one does
ReadOk(p, c) ==
    /\ rq[p].pc = "reading"
    /\ c \in rq[p].pend
    /\ LET r == [rq[p] EXCEPT !.pend = @ \ {c}, !.got[c] = ReadCollection(c)]
       IN  rq' = [rq EXCEPT ![p] =
                    IF JoinResolved(r.pend) THEN Respond(r, 200, DataBody(r.got)) ELSE r]
    /\ UNCHANGED <<isFirebaseInitialized, db, revision, clock, store, usedIds>>

\* one of the pending reads rejects: Promise.all rejects and the catch block answers
ReadFail(p, c) ==
    /\ rq[p].pc = "reading"
    /\ c \in rq[p].pend
    /\ rq' = [rq EXCEPT ![p] = Respond(rq[p], 500, DataErrorBody)]
    /\ UNCHANGED <<isFirebaseInitialized, db, revision, clock, store, usedIds>>

(***************************************************************************)
(* DELETE/POST /api/delete/all                                             *)
(***************************************************************************)
IdsOf(docs) == {d.id : d \in docs}

\* collectionRef.limit(n).get(): the first n documents in document-id order
Limit(docs, n) ==
    {d \in docs : Cardinality({e \in docs : e.id < d.id}) < n}

\* a count that adds the batch size instead of the page's size
SnapshotSize_BatchSize(page) == BatchSize

\* snapshot.size
SnapshotSize(page) == Cardinality(page)

\* deleteCollection(db, Collections[i]) is called: its first page is requested
StartCollection(r, i) ==
    [r EXCEPT !.pc = "fetch", !.cidx = i, !.deleted = 0, !.page = {},
              !.n0[i] = Cardinality(store[Collections[i]]),
              !.solo[i] = TRUE, !.commits[i] = 0]

\* the body of the 200 response: { ok: true, deleted: result }
EraseBody(result) ==
    [ok |-> TRUE,
     deleted |-> [c \in CollectionNames |->
                    result[CHOOSE i \in 1..Len(Collections) : Collections[i] = c]]]

\* an erase that goes on with the next collection after a failure
ErrorExit_Continue(r, detail) ==
    IF r.cidx < Len(Collections)
    THEN StartCollection([r EXCEPT !.result = Append(@, r.deleted)], r.cidx + 1)
    ELSE Respond(r, 500, [ok |-> FALSE, error |-> "Delete failed", detail |-> detail])

\* the catch block of the route: the whole erase ends with 500
ErrorExit(r, detail) ==
    Respond(r, 500, [ok |-> FALSE, error |-> "Delete failed", detail |-> detail])

EraseHandler(r) ==
    IF ~r.handled THEN r ELSE StartCollection(r, 1)

\* the route is registered for DELETE and for POST, in api/index.js only
EraseAll(p, route) ==
    /\ Free(p)
    /\ revision = "api/index.js"
    /\ rq' = [rq EXCEPT ![p] =
                EraseHandler(Guard(route, Undefined))]
    /\ UNCHANGED <<isFirebaseInitialized, db, revision, clock, store, usedIds>>

\* the page arrives: an empty one ends this collection (and the next one starts, or
\* the response is sent), any other is handed to a batch
FetchPage(p) ==
    /\ rq[p].pc = "fetch"
    /\ LET r == rq[p]
           snapshot == Limit(store[Collections[r.cidx]], BatchSize)
           done == [r EXCEPT !.result = Append(@, r.deleted)]
       IN  rq' = [rq EXCEPT ![p] =
                    IF snapshot # {} THEN [r EXCEPT !.pc = "commit", !.page = snapshot]
                    ELSE IF r.cidx < Len(Collections) THEN StartCollection(done, r.cidx + 1)
                    ELSE Respond(done, 200, EraseBody(done.result))]
    /\ UNCHANGED <<isFirebaseInitialized, db, revision, clock, store, usedIds>>

FetchFail(p) ==
    /\ rq[p].pc = "fetch"
    /\ rq' = [rq EXCEPT ![p] = ErrorExit(rq[p], "get failed")]
    /\ UNCHANGED <<isFirebaseInitialized, db, revision, clock, store, usedIds>>

\* batch.commit() resolves: the page's documents are gone, deleted += snapshot.size
CommitBatch(p) ==
    /\ rq[p].pc = "commit"
    /\ LET r == rq[p]
           c == Collections[r.cidx]
       IN  /\ store' = [store EXCEPT ![c] = {d \in @ : d.id \notin IdsOf(r.page)}]
           /\ rq' = Disturb([rq EXCEPT ![p] =
                        [r EXCEPT !.pc = "yield",
                                  !.deleted = @ + SnapshotSize(r.page),
                                  !.commits[r.cidx] = @ + 1,
                                  !.removed = @ \cup (IdsOf(r.page) \cap IdsOf(store[c]))]],
                        p, c)
    /\ UNCHANGED <<isFirebaseInitialized, db, revision, clock, usedIds>>

\* batch.commit() rejects: nothing of the batch is applied, the error propagates
CommitFail(p) ==
    /\ rq[p].pc = "commit"
    /\ rq' = [rq EXCEPT ![p] = ErrorExit(rq[p], "commit failed")]
    /\ UNCHANGED <<isFirebaseInitialized, db, revision, clock, store, usedIds>>

\* await new Promise(r => setTimeout(r, 0)), then the next page is requested
Yield(p) ==
    /\ rq[p].pc = "yield"
    /\ rq' = [rq EXCEPT ![p].pc = "fetch"]
    /\ UNCHANGED <<isFirebaseInitialized, db, revision, clock, store, usedIds>>

(***************************************************************************)
(* Request bodies offered to the add endpoints: one well-formed body per   *)
(* endpoint, its variants (lat as a number, a numeric string, a string     *)
(* that is no number; an end date in the past or in the future; a          *)
(* createdAt of the client's own), the bodies that lack one required       *)
(* field, and the empty body.                                              *)
(***************************************************************************)
PlainSensor ==
    [lat |-> Num(375), lon |-> Num(1270), smoke |-> Num(10), temp |-> Num(200),
     humidity |-> Undefined, time |-> Undefined, createdAt |-> Undefined]
PlainCitizen ==
    [lat |-> Num(375), lon |-> Num(1270), time |-> Undefined, createdAt |-> Undefined]
PlainPre ==
    [lat |-> Num(375), lon |-> Num(1270), startDate |-> Num(900),
     endDate |-> Num(990), rangeKm |-> Undefined, createdAt |-> Undefined]

SensorRequired == {"lat", "lon", "smoke", "temp"}
CitizenRequired == {"lat", "lon"}
PreRequired == {"lat", "lon", "startDate", "endDate"}

LatInputs == {Num(375), Str(<<"3", "7", ".", "5">>), Str(<<"a", "b", "c">>)}
EndDateInputs == {Num(10), Num(990)}
\* a createdAt of the client's own, which no handler reads
CreatedAtInputs == {Undefined, Num(0)}

\* some required field is absent from the body
Absent(body, required) == \E k \in required : body[k] = Undefined

\* body without the fields of keys
Without(body, keys) ==
    [k \in DOMAIN body |-> IF k \in keys THEN Undefined ELSE body[k]]

Incomplete(body, required) ==
    {Without(body, {k}) : k \in required} \cup {Without(body, DOMAIN body)}

SensorBodies ==
    {[PlainSensor EXCEPT !.lat = lat, !.createdAt = at] :
        lat \in LatInputs, at \in CreatedAtInputs}
    \cup Incomplete(PlainSensor, SensorRequired)
CitizenBodies ==
    {[PlainCitizen EXCEPT !.lat = lat, !.createdAt = at] :
        lat \in LatInputs, at \in CreatedAtInputs}
    \cup Incomplete(PlainCitizen, CitizenRequired)
PreBodies ==
    {[PlainPre EXCEPT !.lat = lat, !.endDate = e, !.createdAt = at] :
        lat \in LatInputs, e \in EndDateInputs, at \in CreatedAtInputs}
    \cup Incomplete(PlainPre, PreRequired)

EraseRoutes == {"DELETE /api/delete/all", "POST /api/delete/all"}
IngestProcs == {1}
EraseProcs == {1}
AddProcs == {2}

(***************************************************************************)
(* Specifications                                                          *)
(***************************************************************************)
\* the whole service: every route, every slot, every body
Next ==
    \/ \E p \in Procs, body \in SensorBodies : AddSensor(p, body)
    \/ \E p \in Procs, body \in CitizenBodies : AddCitizen(p, body)
    \/ \E p \in Procs, body \in PreBodies : AddPre(p, body)
    \/ \E p \in Procs : StoreAdd(p)
    \/ \E p \in Procs : StoreAddFail(p)
    \/ \E p \in Procs : GetData(p)
    \/ \E p \in Procs, c \in CollectionNames : ReadOk(p, c)
    \/ \E p \in Procs, c \in CollectionNames : ReadFail(p, c)
    \/ \E p \in Procs, route \in EraseRoutes : EraseAll(p, route)
    \/ \E p \in Procs : FetchPage(p)
    \/ \E p \in Procs : FetchFail(p)
    \/ \E p \in Procs : CommitBatch(p)
    \/ \E p \in Procs : CommitFail(p)
    \/ \E p \in Procs : Yield(p)
    \/ Tick

Spec == Init /\ [][Next]_vars

\* the store of the ingestion specification has room for one more document
HasRoom == Cardinality(usedIds) < MaxIngestDocs

\* ingestion and reading: one request at a time, every body; a body with all its
\* required fields is offered only while the store has room for its document
NextIngest ==
    \/ \E p \in IngestProcs, body \in SensorBodies :
            (HasRoom \/ Absent(body, SensorRequired)) /\ AddSensor(p, body)
    \/ \E p \in IngestProcs, body \in CitizenBodies :
            (HasRoom \/ Absent(body, CitizenRequired)) /\ AddCitizen(p, body)
    \/ \E p \in IngestProcs, body \in PreBodies :
            (HasRoom \/ Absent(body, PreRequired)) /\ AddPre(p, body)
    \/ \E p \in IngestProcs : StoreAdd(p)
    \/ \E p \in IngestProcs : StoreAddFail(p)
    \/ \E p \in IngestProcs : GetData(p)
    \/ \E p \in IngestProcs, c \in CollectionNames : ReadOk(p, c)
    \/ \E p \in IngestProcs, c \in CollectionNames : ReadFail(p, c)
    \/ Tick

SpecIngest == Init /\ [][NextIngest]_vars

\* erasing: an erase request with add requests running beside it, one body per add
\* endpoint, the clock standing still
NextErase ==
    \/ \E p \in AddProcs : AddSensor(p, PlainSensor)
    \/ \E p \in AddProcs : AddCitizen(p, PlainCitizen)
    \/ \E p \in AddProcs : AddPre(p, PlainPre)
    \/ \E p \in AddProcs : StoreAdd(p)
    \/ \E p \in AddProcs : StoreAddFail(p)
    \/ \E p \in EraseProcs, route \in EraseRoutes : EraseAll(p, route)
    \/ \E p \in EraseProcs : FetchPage(p)
    \/ \E p \in EraseProcs : FetchFail(p)
    \/ \E p \in EraseProcs : CommitBatch(p)
    \/ \E p \in EraseProcs : CommitFail(p)
    \/ \E p \in EraseProcs : Yield(p)

SpecErase == Init /\ [][NextErase]_vars

\* one request at a time, on every route, with the well-formed bodies
NextSerial ==
    \/ \E p \in IngestProcs : AddSensor(p, PlainSensor)
    \/ \E p \in IngestProcs : AddCitizen(p, PlainCitizen)
    \/ \E p \in IngestProcs : AddPre(p, PlainPre)
    \/ \E p \in IngestProcs : StoreAdd(p)
    \/ \E p \in IngestProcs : StoreAddFail(p)
    \/ \E p \in IngestProcs : GetData(p)
    \/ \E p \in IngestProcs, c \in CollectionNames : ReadOk(p, c)
    \/ \E p \in IngestProcs, c \in CollectionNames : ReadFail(p, c)
    \/ \E p \in IngestProcs, route \in EraseRoutes : EraseAll(p, route)
    \/ \E p \in IngestProcs : FetchPage(p)
    \/ \E p \in IngestProcs : FetchFail(p)
    \/ \E p \in IngestProcs : CommitBatch(p)
    \/ \E p \in IngestProcs : CommitFail(p)
    \/ \E p \in IngestProcs : Yield(p)
    \/ Tick

SpecSerial == Init /\ [][NextSerial]_vars

(***************************************************************************)
(* Properties                                                              *)
(***************************************************************************)
IsData(r) == r.route = "GET /api/data"
IsAdd(r) ==
    r.route \in {"POST /api/add/sensor", "POST /api/add/citizen", "POST /api/add/pre"}
IsErase(r) == r.route \in EraseRoutes

\* the read of collection c by request p resolves in this step
ReadResolves(p, c) ==
    /\ rq[p].pc = "reading"
    /\ c \in rq[p].pend
    /\ rq'[p].pc \in {"reading", "done"}
    /\ c \notin rq'[p].pend

\* the records of docs as the response carries them
Json(docs) == {DocToJson(d) : d \in docs}

\* C1 as the specification states it: a successful GET /api/data returns a sensor or
\* citizen record if and only if its time is later than the read instant minus the
\* 24-hour window (requests are served one at a time here, so the store at the
\* response is the store that was read).
C1_RecencyWindowOnly ==
    \A p \in Procs :
        (IsData(rq[p]) /\ rq[p].status = 200) =>
            \A c \in {"sensorData", "citizenReports"} :
                rq[p].resp[c] =
                    Json({d \in store[c] :
                            Later(d.data.time, rq[p].arrival - RecencyWindow)})

\* C1 as amended: a successful GET /api/data returns every sensor and citizen record
\* that its collection holds when it is read, whatever the record's time; the
\* response carries exactly the records read.
C1_ReturnsEveryRecord ==
    [][\A p \in Procs :
        /\ \A c \in {"sensorData", "citizenReports"} :
                ReadResolves(p, c) => rq'[p].got[c] = store[c]
        /\ (IsData(rq'[p]) /\ rq'[p].status = 200) =>
                \A c \in {"sensorData", "citizenReports"} :
                    rq'[p].resp[c] = Json(rq'[p].got[c])]_vars

\* C1 witness: a 200 response carries a sensor record whose time is not inside the
\* window that ends at the request's arrival.
C1_Witness ==
    \E p \in Procs :
        /\ IsData(rq[p]) /\ rq[p].status = 200
        /\ \E j \in rq[p].resp.sensorData :
                ~Later(j.time, rq[p].arrival - RecencyWindow)

\* C2 as the specification states it: a successful GET /api/data returns a
\* pre-report if and only if its endDate is later than the read instant.
C2_ValidityWindowOnly ==
    \A p \in Procs :
        (IsData(rq[p]) /\ rq[p].status = 200) =>
            rq[p].resp.preReports =
                Json({d \in store["preReports"] :
                        Later(d.data.endDate, rq[p].arrival)})

\* C2 as amended: a successful GET /api/data returns every pre-report the collection
\* holds when it is read, whatever its endDate and startDate.
C2_ReturnsEveryPreReport ==
    [][\A p \in Procs :
        /\ ReadResolves(p, "preReports") =>
                rq'[p].got["preReports"] = store["preReports"]
        /\ (IsData(rq'[p]) /\ rq'[p].status = 200) =>
                rq'[p].resp.preReports = Json(rq'[p].got["preReports"])]_vars

\* C2 witness: a 200 response carries a pre-report whose endDate has passed.
C2_Witness ==
    \E p \in Procs :
        /\ IsData(rq[p]) /\ rq[p].status = 200
        /\ \E j \in rq[p].resp.preReports : ~Later(j.endDate, rq[p].arrival)

RequiredOf(route) ==
    CASE route = "POST /api/add/sensor" -> SensorRequired
      [] route = "POST /api/add/citizen" -> CitizenRequired
      [] OTHER -> PreRequired

\* request p arrives in this step and reaches its add handler
AddArrives(p) ==
    /\ Free(p)
    /\ rq'[p] # rq[p]
    /\ IsAdd(rq'[p])
    /\ rq'[p].handled

\* C3: an add request that lacks a required field is answered 400 by the handler
\* itself, issues no insert, and leaves the three collections as they were.
C3_MissingFieldRejected ==
    [][\A p \in Procs :
        (AddArrives(p) /\ Absent(rq'[p].body, RequiredOf(rq'[p].route))) =>
            /\ rq'[p].pc = "done"
            /\ rq'[p].status = 400
            /\ rq'[p].newDoc = Undefined
            /\ store' = store
            /\ usedIds' = usedIds]_vars

\* C3 witness: a sensor request without temp was answered 400 while the store holds a
\* document.
C3_Witness ==
    \E p \in Procs :
        /\ rq[p].route = "POST /api/add/sensor"
        /\ rq[p].handled
        /\ rq[p].body.temp = Undefined /\ rq[p].body.lat # Undefined
        /\ rq[p].status = 400
        /\ usedIds # {}

\* x is present and does not parse to a number
NonNumeric(x) == x # Undefined /\ parseFloat(x) = NaN

\* C4: an add request with a required field that does not parse to a number is
\* answered 400, and no stored record holds anything but a number in a numeric field.
C4_NonNumericRejected ==
    /\ \A p \in Procs :
        (/\ IsAdd(rq[p])
         /\ rq[p].handled
         /\ rq[p].pc = "done"
         /\ \E k \in RequiredOf(rq[p].route) : NonNumeric(rq[p].body[k])) =>
            rq[p].status = 400
    /\ \A c \in CollectionNames : \A d \in store[c] :
        \A k \in DOMAIN d.data \ {"createdAt"} : d.data[k].t = "number"

\* C6: without a store handle every request is answered 500 by the guard, no handler
\* runs and no store operation is issued; with a handle every request reaches its
\* handler.
C6_GuardShortCircuits ==
    /\ \A p \in Procs :
        rq[p].route # "" =>
            IF ~isFirebaseInitialized \/ db = "null"
            THEN /\ ~rq[p].handled
                 /\ rq[p].pc = "done"
                 /\ rq[p].status = 500
                 /\ rq[p].resp = ConfigErrorBody
                 /\ rq[p].newDoc = Undefined
                 /\ rq[p].pend = {}
                 /\ rq[p].cidx = 0
            ELSE rq[p].handled
    /\ (~isFirebaseInitialized \/ db = "null") =>
            /\ usedIds = {}
            /\ \A c \in CollectionNames : store[c] = {}

\* C6 witness: an erase request was answered by the guard.
C6_Witness ==
    \E p \in Procs :
        /\ IsErase(rq[p])
        /\ db = "null"
        /\ rq[p].status = 500

DocFor(route, body, now) ==
    CASE route = "POST /api/add/sensor" -> SensorDoc(body, now)
      [] route = "POST /api/add/citizen" -> CitizenDoc(body, now)
      [] OTHER -> PreDoc(body, now)

\* C7: the record of every successful add carries a createdAt that the store set, not
\* earlier than the request's arrival, and its fields are those of the same request
\* without a createdAt in its body.
C7_CreatedAtFromStore ==
    \A p \in Procs :
        (IsAdd(rq[p]) /\ rq[p].status = 201) =>
            \E d \in store[rq[p].coll] :
                /\ d.id = rq[p].resp.id
                /\ d.data.createdAt.t = "timestamp"
                /\ d.data.createdAt.v >= rq[p].arrival
                /\ [d.data EXCEPT !.createdAt = ServerTimestamp] =
                        DocFor(rq[p].route, Without(rq[p].body, {"createdAt"}),
                               Num(rq[p].arrival * 10))

\* C7 witness: a sensor request with a createdAt of its own was stored after the
\* clock had moved on from its arrival.
C7_Witness ==
    \E p \in Procs :
        /\ rq[p].route = "POST /api/add/sensor"
        /\ rq[p].status = 201
        /\ rq[p].body.createdAt = Num(0)
        /\ \E d \in store["sensorData"] :
                d.id = rq[p].resp.id /\ d.data.createdAt.v > rq[p].arrival

PayloadFields == {"sensorData", "citizenReports", "preReports"}

\* C9 as the specification states it: 200 only when the three reads succeeded;
\* when a read fails, 500 with an error and empty arrays for the payload fields.
C9_ErrorWithEmptyArrays ==
    \A p \in Procs :
        (IsData(rq[p]) /\ rq[p].handled /\ rq[p].pc = "done") =>
            \/ rq[p].status = 200 /\ rq[p].pend = {}
            \/ /\ rq[p].status = 500
               /\ "error" \in DOMAIN rq[p].resp
               /\ PayloadFields \subseteq DOMAIN rq[p].resp
               /\ \A f \in PayloadFields : rq[p].resp[f] = {}

\* C9 as amended: 200 with the three payload fields only when the three reads
\* succeeded; when a read fails, 500 with an error and no payload field at all.
C9_ErrorOnly ==
    \A p \in Procs :
        (IsData(rq[p]) /\ rq[p].handled /\ rq[p].pc = "done") =>
            \/ /\ rq[p].status = 200
               /\ rq[p].pend = {}
               /\ DOMAIN rq[p].resp = PayloadFields
            \/ /\ rq[p].status = 500
               /\ rq[p].pend # {}
               /\ DOMAIN rq[p].resp = {"error"}

\* C9 witness: a read failed after another had returned records.
C9_Witness ==
    \E p \in Procs :
        /\ IsData(rq[p])
        /\ rq[p].status = 500
        /\ \E c \in CollectionNames : c \notin rq[p].pend /\ rq[p].got[c] # {}

\* x is a number, or a string that is the decimal literal of one
NumericInput(x) ==
    \/ x.t = "number"
    \/ x.t = "string" /\ parseFloat(x).t = "number" /\ JsToString(parseFloat(x)) = x.s

\* what GET /api/data returns for collection c from the store as it is
ReadBack(c) == DataBody([x \in CollectionNames |-> ReadCollection(x)])[c]

\* C10: after a successful add of a payload whose fields are numbers or numeric
\* strings, a read returns exactly one record with the id, whose fields are the
\* numeric values of the input, plus the createdAt of the store.
C10_RoundTripNumeric ==
    \A p \in Procs :
        (/\ IsAdd(rq[p])
         /\ rq[p].status = 201
         /\ \A k \in DOMAIN rq[p].body \ {"createdAt"} :
                rq[p].body[k] = Undefined \/ NumericInput(rq[p].body[k])) =>
            LET back == {j \in ReadBack(rq[p].coll) : j.id = rq[p].resp.id}
            IN  /\ Cardinality(back) = 1
                /\ \A j \in back :
                    /\ j.createdAt.t = "timestamp"
                    /\ \A k \in DOMAIN rq[p].body \ {"createdAt"} :
                        rq[p].body[k] # Undefined => j[k] = parseFloat(rq[p].body[k])

\* the least number of batches of size b that hold n documents
CeilDiv(n, b) == (n + b - 1) \div b

StoredIds == UNION {IdsOf(store[c]) : c \in CollectionNames}

\* C5: with no other writer on the collection, deleteCollection commits exactly
\* ceil(N / batchSize) batches of at most batchSize documents each, every one before
\* the next page is fetched, counts exactly the N documents, and leaves the
\* collection empty; an empty collection takes no commit and counts 0.
C5_EraseDrainsCollection ==
    \A p \in Procs :
        (IsErase(rq[p]) /\ rq[p].handled) =>
            LET r == rq[p]
                c == Collections[r.cidx]
            IN  /\ r.pc = "commit" =>
                    /\ Cardinality(r.page) \in 1..BatchSize
                    /\ r.solo[r.cidx] => r.page \subseteq store[c]
                /\ (r.pc \in {"fetch", "commit", "yield"} /\ r.solo[r.cidx]) =>
                    /\ r.deleted + Cardinality(store[c]) = r.n0[r.cidx]
                    /\ r.commits[r.cidx] = CeilDiv(r.deleted, BatchSize)
                /\ \A i \in 1..Len(r.result) :
                    r.solo[i] =>
                        /\ r.result[i] = r.n0[i]
                        /\ r.commits[i] = CeilDiv(r.n0[i], BatchSize)
                        /\ store[Collections[i]] = {}
                /\ r.status = 200 =>
                    \A i \in 1..Len(Collections) :
                        r.resp.deleted[Collections[i]] = r.result[i]

\* C5 witness: an erase ended with 200 after draining, undisturbed, a first collection
\* of more documents than one batch holds (and not a whole number of batches) and
\* passing an empty second collection.
C5_Witness ==
    \E p \in Procs :
        /\ IsErase(rq[p])
        /\ rq[p].status = 200
        /\ rq[p].solo[1] /\ rq[p].solo[2]
        /\ rq[p].n0[1] > BatchSize
        /\ rq[p].n0[1] % BatchSize # 0
        /\ rq[p].n0[2] = 0

\* the batch commit of erase request p rejects in this step
CommitRejects(p) ==
    /\ rq[p].pc = "commit"
    /\ rq'[p].pc # "commit"
    /\ rq'[p].commits = rq[p].commits

\* C8: when a batch commit fails, the erase is answered 500 {ok: false} at once;
\* what its earlier batches deleted stays deleted, and the collections after the
\* failing one are never touched by it.
C8_AbortOnCommitFailure ==
    [][\A p \in Procs :
        /\ CommitRejects(p) =>
            /\ rq'[p].pc = "done"
            /\ rq'[p].status = 500
            /\ rq'[p].resp.ok = FALSE
            /\ rq'[p].cidx = rq[p].cidx
            /\ rq'[p].removed = rq[p].removed
            /\ store' = store
        /\ (IsErase(rq'[p]) /\ rq'[p].status = 500) =>
            /\ rq'[p].removed \cap StoredIds' = {}
            /\ \A j \in 1..Len(Collections) :
                j > rq'[p].cidx => rq'[p].commits[j] = 0 /\ rq'[p].n0[j] = 0]_vars

\* C8 witness: a commit failed in the second collection after the first had been
\* erased, and the third still holds a document.
C8_Witness ==
    \E p \in Procs :
        /\ IsErase(rq[p])
        /\ rq[p].handled
        /\ rq[p].status = 500
        /\ rq[p].resp.detail = "commit failed"
        /\ rq[p].cidx = 2
        /\ rq[p].commits[1] > 0
        /\ rq[p].removed # {}
        /\ store["preReports"] # {}

(***************************************************************************)
(* Optional fields: bodies that supply time, humidity and rangeKm as zero, *)
(* as another number, as a string that is no number, or not at all.        *)
(***************************************************************************)
TimeInputs == {Undefined, Num(0), Num(10), Str(<<"a", "b", "c">>)}
HumidityInputs == {Undefined, Num(0), Num(405)}
RangeKmInputs == {Undefined, Num(0), Num(25)}

OptionalSensorBodies ==
    {[PlainSensor EXCEPT !.time = t, !.humidity = h] :
        t \in TimeInputs, h \in HumidityInputs}
OptionalCitizenBodies == {[PlainCitizen EXCEPT !.time = t] : t \in TimeInputs}
OptionalPreBodies == {[PlainPre EXCEPT !.rangeKm = k] : k \in RangeKmInputs}

\* the add routes, one request at a time, with every value of the optional fields
NextOptional ==
    \/ \E p \in IngestProcs, body \in OptionalSensorBodies :
            HasRoom /\ AddSensor(p, body)
    \/ \E p \in IngestProcs, body \in OptionalCitizenBodies :
            HasRoom /\ AddCitizen(p, body)
    \/ \E p \in IngestProcs, body \in OptionalPreBodies :
            HasRoom /\ AddPre(p, body)
    \/ \E p \in IngestProcs : StoreAdd(p)
    \/ \E p \in IngestProcs : StoreAddFail(p)
    \/ Tick

SpecOptional == Init /\ [][NextOptional]_vars

\* the value an optional field is to be stored with: the number supplied, and the
\* default when the field is absent or is not a number
StoredOptional(x, default) == IF NumericInput(x) THEN parseFloat(x) ELSE default

\* C11: the record of every successful add holds, for time, the integer supplied
\* (0 included) and the wall-clock time of ingestion when none or a non-number is
\* supplied; for humidity, the number supplied and 0 when none is; for rangeKm, the
\* number supplied (0 included) and 0.1 when none is.
C11_DefaultsOnlyWhenAbsent ==
    \A p \in Procs :
        (IsAdd(rq[p]) /\ rq[p].status = 201) =>
            \E d \in store[rq[p].coll] :
                /\ d.id = rq[p].resp.id
                /\ rq[p].route \in {"POST /api/add/sensor", "POST /api/add/citizen"} =>
                    d.data.time =
                        StoredOptional(rq[p].body.time, Num(rq[p].arrival * 10))
                /\ rq[p].route = "POST /api/add/sensor" =>
                    d.data.humidity = StoredOptional(rq[p].body.humidity, Num(0))
                /\ rq[p].route = "POST /api/add/pre" =>
                    d.data.rangeKm = StoredOptional(rq[p].body.rangeKm, Num(1))

(***************************************************************************)
(* Concurrent erases: erase requests on both request slots, with sensor    *)
(* adds between and beside them, and no store call failing.                *)
(***************************************************************************)
NextRace ==
    \/ \E p \in Procs : AddSensor(p, PlainSensor)
    \/ \E p \in Procs : StoreAdd(p)
    \/ \E p \in Procs, route \in EraseRoutes : EraseAll(p, route)
    \/ \E p \in Procs : FetchPage(p)
    \/ \E p \in Procs : CommitBatch(p)
    \/ \E p \in Procs : Yield(p)

SpecRace == Init /\ [][NextRace]_vars

\* the sum of a sequence of numbers
RECURSIVE SumSeq(_)
SumSeq(q) == IF q = <<>> THEN 0 ELSE q[1] + SumSeq(Tail(q))

\* the count erase request r has reported or accumulated so far
Counted(r) ==
    SumSeq(r.result) + (IF r.pc \in {"fetch", "commit", "yield"} THEN r.deleted ELSE 0)

\* C12: under every interleaving of erase and add requests, what an erase counts is
\* the number of documents its own commits removed from the store, so that the
\* counts of a 200 response add up to the documents that erase removed and no
\* document is counted by two erases.
C12_CountsWhatItRemoved ==
    \A p \in Procs :
        (IsErase(rq[p]) /\ rq[p].handled) =>
            /\ Counted(rq[p]) = Cardinality(rq[p].removed)
            /\ rq[p].status = 200 =>
                SumSeq([i \in 1..Len(Collections) |->
                            rq[p].resp.deleted[Collections[i]]])
                    = Cardinality(rq[p].removed)
            /\ \A q \in Procs \ {p} :
                (IsErase(rq[q]) /\ rq[q].handled) =>
                    rq[p].removed \cap rq[q].removed = {}

====
